---- MODULE Spec2Model ----
(***************************************************************************)
(* Model of data/src/languages_update.py: the script classifier            *)
(* (_detect_best_script_name), the alias lookup (_get_alias), the          *)
(* consistency sweep (_remove_mismatch_ids) and the per-line loop of       *)
(* _update_languages_json over one language record and one tsv file.       *)
(*                                                                         *)
(* A Python str is a sequence of one-character strings, so that replace,   *)
(* lower and join are computed character by character.  A Python dict is   *)
(* a sequence of [key, value] records with distinct keys, in insertion     *)
(* order.  A language record is a function whose domain holds "script"     *)
(* only when the record has a script map.                                  *)
(***************************************************************************)
EXTENDS Integers, Sequences, FiniteSets, TLC

VARIABLES lang0, batch, lang, pos, pc, errAt, run, first, prev, swept,
          cword, cresult, cpc

vars == <<lang0, batch, lang, pos, pc, errAt, run, first, prev, swept,
          cword, cresult, cpc>>

reconcileVars == <<lang0, batch, lang, pos, pc, errAt, run, first, prev, swept>>

classifyVars == <<cword, cresult, cpc>>

\* ------------------------------------------------------------------ bounds
MaxWordLen == 3

MaxBatchLen == 2

MaxMapLen == 2

\* ------------------------------------------------------------- str values
None == "None"

KeyError == "KeyError"

S_Arabic == <<"A", "r", "a", "b", "i", "c">>

S_Latin == <<"L", "a", "t", "i", "n">>

S_Common == <<"C", "o", "m", "m", "o", "n">>

S_Coptic == <<"C", "o", "p", "t", "i", "c">>

S_Old_Italic == <<"O", "l", "d", "_", "I", "t", "a", "l", "i", "c">>

S_Old_Italic_spaced == <<"O", "l", "d", " ", "I", "t", "a", "l", "i", "c">>

\* a script name of the character table that the alias registry lacks
S_Drift == <<"D", "r", "i", "f", "t">>

\* a stored label that is no script name at all
S_Foo == <<"F", "o", "o">>

K_aran == <<"a", "r", "a", "n">>

K_ital == <<"i", "t", "a", "l">>

UpperCase == <<"A", "B", "C", "D", "E", "F", "G", "H", "I", "J", "K", "L", "M",
               "N", "O", "P", "Q", "R", "S", "T", "U", "V", "W", "X", "Y", "Z">>

LowerCase == <<"a", "b", "c", "d", "e", "f", "g", "h", "i", "j", "k", "l", "m",
               "n", "o", "p", "q", "r", "s", "t", "u", "v", "w", "x", "y", "z">>

\* str.lower()
Lower(s) ==
    [i \in 1..Len(s) |->
        IF \E j \in 1..Len(UpperCase) : UpperCase[j] = s[i]
        THEN LowerCase[CHOOSE j \in 1..Len(UpperCase) : UpperCase[j] = s[i]]
        ELSE s[i]]

\* str.replace(old, new) for one-character old and new
Replace(s, old, new) ==
    [i \in 1..Len(s) |-> IF s[i] = old THEN new ELSE s[i]]

RECURSIVE Join(_)
\* "".join(parts)
Join(parts) ==
    IF parts = <<>> THEN <<>> ELSE Head(parts) \o Join(Tail(parts))

\* ------------------------------------------------- external Unicode tables
\* the characters of the model, named after their code points
Chars == {"ARABIC_JEH", "ARABIC_U", "LATIN_A", "DIGIT_ONE", "OLD_ITALIC_A",
          "COPTIC_ALFA", "DRIFTED"}

\* unicodedataplus.script(char)
script(char) ==
    CASE char = "ARABIC_JEH" -> S_Arabic
      [] char = "ARABIC_U" -> S_Arabic
      [] char = "LATIN_A" -> S_Latin
      [] char = "DIGIT_ONE" -> S_Common
      [] char = "OLD_ITALIC_A" -> S_Old_Italic
      [] char = "COPTIC_ALFA" -> S_Coptic
      [] OTHER -> S_Drift

\* unicodedataplus.property_value_aliases["script"]
property_value_aliases ==
    [v \in {S_Arabic, S_Latin, S_Common, S_Coptic, S_Old_Italic} |->
        CASE v = S_Arabic -> << <<"A", "r", "a", "b">> >>
          [] v = S_Latin -> << <<"L", "a", "t", "n">> >>
          [] v = S_Common -> << <<"Z", "y", "y", "y">> >>
          [] v = S_Coptic -> << <<"C", "o", "p", "t">>, <<"Q", "a", "a", "c">> >>
          [] OTHER -> << <<"I", "t", "a", "l">> >>]

\* ------------------------------------------------------------- dict helpers
Keys(d) == {d[i].key : i \in 1..Len(d)}

Items(d) == {<<d[i].key, d[i].value>> : i \in 1..Len(d)}

GetItem(d, k) == d[CHOOSE i \in 1..Len(d) : d[i].key = k].value

\* d[k] = v: an existing key keeps its place, a new key goes last
SetItem(d, k, v) ==
    IF k \in Keys(d)
    THEN [i \in 1..Len(d) |-> IF d[i].key = k THEN [key |-> k, value |-> v] ELSE d[i]]
    ELSE Append(d, [key |-> k, value |-> v])

RECURSIVE DelItems(_, _)
\* for i in remove: del d[i]
DelItems(d, remove) ==
    IF remove = <<>> THEN d
    ELSE LET k == Head(remove)
             IsNot(e) == e.key # k
         IN DelItems(SelectSeq(d, IsNot), Tail(remove))

\* -------------------------------------------------- _detect_best_script_name
RECURSIVE CountScripts(_, _)
\* the loop over the characters: script_counts[script(char)] += 1.0
CountScripts(word, counts) ==
    IF word = <<>> THEN counts
    ELSE CountScripts(Tail(word),
                      SetItem(counts, script(Head(word)),
                              IF script(Head(word)) \in Keys(counts)
                              THEN GetItem(counts, script(Head(word))) + 1
                              ELSE 1))

\* the share count / len(word), kept as a fraction
ScriptProbs(counts, n) ==
    [i \in 1..Len(counts) |->
        [s |-> counts[i].key, num |-> counts[i].value, den |-> n]]

\* a.share > b.share
ShareGreater(a, b) == a.num * b.den > b.num * a.den

RECURSIVE InsertSorted(_, _)
InsertSorted(sorted, e) ==
    IF sorted = <<>> THEN <<e>>
    ELSE IF ShareGreater(e, Head(sorted)) THEN <<e>> \o sorted
    ELSE <<Head(sorted)>> \o InsertSorted(Tail(sorted), e)

RECURSIVE SortProbs(_, _)
\* script_probs.sort(key=itemgetter(1), reverse=True): stable, largest first
SortProbs(probs, sorted) ==
    IF probs = <<>> THEN sorted
    ELSE SortProbs(Tail(probs), InsertSorted(sorted, Head(probs)))

\* a variant that never applies the strict test
DetectNonStrict(word, strict) ==
    LET script_probs ==
            SortProbs(ScriptProbs(CountScripts(word, <<>>), Len(word)), <<>>)
    IN IF script_probs = <<>> THEN None ELSE script_probs[1].s

_detect_best_script_name(word, strict) ==
    LET script_probs ==
            SortProbs(ScriptProbs(CountScripts(word, <<>>), Len(word)), <<>>)
    IN IF strict /\ Len(script_probs) # 1 THEN None ELSE script_probs[1].s

\* ------------------------------------------------------------------ _get_alias
\* [err, val]: the lookup raises KeyError for a value the registry lacks
_get_alias(value) ==
    IF value \in DOMAIN property_value_aliases
    THEN [err |-> "none", val |-> Lower(Join(property_value_aliases[value]))]
    ELSE [err |-> KeyError, val |-> <<>>]

\* -------------------------------------------------------- _remove_mismatch_ids
RECURSIVE ScanItems(_, _, _)
\* the read-only pass: collects the keys to remove, stops at a KeyError
ScanItems(d, i, remove) ==
    IF i > Len(d) THEN [err |-> "none", remove |-> remove]
    ELSE LET value == Replace(d[i].value, " ", "_")
             alias == _get_alias(value)
         IN IF alias.err # "none" THEN [err |-> KeyError, remove |-> remove]
            ELSE ScanItems(d, i + 1,
                           IF alias.val # d[i].key
                           THEN Append(remove, d[i].key) ELSE remove)

\* a variant that deletes each mismatched pair as soon as the scan meets it
RemoveEagerly(script_dict) ==
    IF "script" \notin DOMAIN script_dict
    THEN [dict |-> script_dict, at |-> "subscript"]
    ELSE LET scan == ScanItems(script_dict["script"], 1, <<>>)
         IN [dict |-> [script_dict EXCEPT
                          !["script"] = DelItems(script_dict["script"], scan.remove)],
             at |-> IF scan.err # "none" THEN "sweep" ELSE "none"]

\* [dict, at]: at names the place that raised, "none" when the sweep finished
_remove_mismatch_ids(script_dict) ==
    IF "script" \notin DOMAIN script_dict
    THEN [dict |-> script_dict, at |-> "subscript"]
    ELSE LET scan == ScanItems(script_dict["script"], 1, <<>>)
         IN IF scan.err # "none"
            THEN [dict |-> script_dict, at |-> "sweep"]
            ELSE [dict |-> [script_dict EXCEPT
                               !["script"] = DelItems(script_dict["script"], scan.remove)],
                  at |-> "none"]

\* ------------------------------------------------------ _update_languages_json
\* the body of `if script is not None:`; at = "insert" when _get_alias raised
InsertScript(rec, scriptName) ==
    IF scriptName = None THEN [lang |-> rec, at |-> "none"]
    ELSE LET withMap == IF "script" \in DOMAIN rec
                        THEN rec ELSE rec @@ [script |-> <<>>]
             alias == _get_alias(scriptName)
         IN IF scriptName \in Keys(withMap["script"])
            THEN [lang |-> withMap, at |-> "none"]
            ELSE IF alias.err # "none"
            THEN [lang |-> withMap, at |-> "insert"]
            ELSE [lang |-> [withMap EXCEPT !["script"] =
                               SetItem(withMap["script"], alias.val,
                                       Replace(scriptName, "_", " "))],
                  at |-> "none"]

\* the body of `for line in f:` for one line whose first field is word:
\* lang is the record after it, swept the record as handed to the sweep,
\* at the place that raised ("none": the line was processed)
UpdateLine(rec, word) ==
    LET ins == InsertScript(rec, _detect_best_script_name(word, TRUE))
        sw == _remove_mismatch_ids(ins.lang)
    IN IF ins.at # "none"
       THEN [lang |-> ins.lang, swept |-> ins.lang, at |-> ins.at]
       ELSE [lang |-> sw.dict, swept |-> ins.lang, at |-> sw.at]

\* a variant in which a raised error is swallowed and the loop goes on
SwallowError(at) == "run"

\* no handler surrounds the loop: an error raised by a line ends the run
NextPc(at) == IF at # "none" THEN "error" ELSE "run"

RECURSIVE Reconcile(_, _)
\* the whole loop over the lines of one file, from record rec
Reconcile(rec, words) ==
    IF words = <<>> THEN [lang |-> rec, at |-> "none"]
    ELSE LET r == UpdateLine(rec, Head(words))
         IN IF r.at # "none" THEN [lang |-> r.lang, at |-> r.at]
            ELSE Reconcile(r.lang, Tail(words))

\* ------------------------------------------------------------------- inputs
SeqsUpTo(S, n) == UNION {[1..k -> S] : k \in 0..n}

\* the first fields of the lines of a tsv file: an Arabic word, an Old Italic
\* word, a Coptic word, a word mixing Latin and Common, a word whose script
\* the alias registry lacks
BatchWords == {<<"ARABIC_JEH", "ARABIC_U">>, <<"OLD_ITALIC_A">>, <<"COPTIC_ALFA">>,
               <<"LATIN_A", "DIGIT_ONE">>, <<"DRIFTED">>}

Batches == SeqsUpTo(BatchWords, MaxBatchLen)

\* keys and labels a script map of languages.json may hold before the run: a
\* wrong code, a right code, a script name used as key; a label, a label in
\* either spelling of its separator, a label the registry lacks
InitKeys == {K_aran, K_ital, S_Arabic}

InitValues == {S_Arabic, S_Old_Italic, S_Old_Italic_spaced, S_Foo}

InitPairs == [key : InitKeys, value : InitValues]

InitDicts ==
    {d \in SeqsUpTo(InitPairs, MaxMapLen) :
        \A i, j \in 1..Len(d) : i # j => d[i].key # d[j].key}

\* the record of one language in languages.json, with or without "script"
InitRecords ==
    {[name |-> "Language"]} \cup
    {[name |-> "Language", script |-> d] : d \in InitDicts}

Words == SeqsUpTo(Chars, MaxWordLen)

\* ------------------------------------------------------------ specification
Init ==
    /\ lang0 \in InitRecords
    /\ batch \in Batches
    /\ lang = lang0
    /\ pos = 0
    /\ pc = "run"
    /\ errAt = "none"
    /\ run = 1
    /\ first = lang0
    /\ prev = lang0
    /\ swept = lang0
    /\ cword = <<>>
    /\ cresult = None
    /\ cpc = "idle"

\* one iteration of `for line in f:`
ProcessLine ==
    /\ pc = "run"
    /\ pos < Len(batch)
    /\ LET r == UpdateLine(lang, batch[pos + 1])
       IN /\ lang' = r.lang
          /\ swept' = r.swept
          /\ errAt' = r.at
          /\ pc' = NextPc(r.at)
    /\ prev' = lang
    /\ pos' = pos + 1
    /\ UNCHANGED <<lang0, batch, run, first>>
    /\ UNCHANGED classifyVars

\* the loop is over: languages.json is written
WriteLanguages ==
    /\ pc = "run"
    /\ pos = Len(batch)
    /\ pc' = "done"
    /\ UNCHANGED <<lang0, batch, lang, pos, errAt, run, first, prev, swept>>
    /\ UNCHANGED classifyVars

\* main() is run once more on the file it wrote, with the same tsv file
RunAgain ==
    /\ pc = "done"
    /\ run = 1
    /\ run' = 2
    /\ first' = lang
    /\ pos' = 0
    /\ pc' = "run"
    /\ prev' = lang
    /\ swept' = lang
    /\ UNCHANGED <<lang0, batch, lang, errAt>>
    /\ UNCHANGED classifyVars

Next == ProcessLine \/ WriteLanguages \/ RunAgain

Spec == Init /\ [][Next]_vars

\* ------------------------------------------- specification of the classifier
InitClassify ==
    /\ cword \in Words
    /\ cresult = None
    /\ cpc = "call"
    /\ lang0 = [name |-> "Language"]
    /\ batch = <<>>
    /\ lang = lang0
    /\ pos = 0
    /\ pc = "idle"
    /\ errAt = "none"
    /\ run = 1
    /\ first = lang0
    /\ prev = lang0
    /\ swept = lang0

\* script = _detect_best_script_name(word)
ClassifyWord ==
    /\ cpc = "call"
    /\ cresult' = _detect_best_script_name(cword, TRUE)
    /\ cpc' = "return"
    /\ UNCHANGED cword
    /\ UNCHANGED reconcileVars

NextClassify == ClassifyWord

SpecClassify == InitClassify /\ [][NextClassify]_vars

\* ------------------------------------------------------- terms of the claims
HasMap(rec) == "script" \in DOMAIN rec

\* the script map as a set of (code, label) pairs; no map and the empty map differ
MapOf(rec) ==
    IF HasMap(rec) THEN [present |-> TRUE, items |-> Items(rec["script"])]
    ELSE [present |-> FALSE, items |-> {}]

MapItems(rec) == MapOf(rec).items

\* the registry gives label (spaces as underscores) the code key
Matches(key, label) ==
    LET alias == _get_alias(Replace(label, " ", "_"))
    IN alias.err = "none" /\ alias.val = key

\* the registry gives label a code, and it is not key
Mismatched(key, label) ==
    LET alias == _get_alias(Replace(label, " ", "_"))
    IN alias.err = "none" /\ alias.val # key

Consistent(rec) == \A p \in MapItems(rec) : Matches(p[1], p[2])

classify(word) == _detect_best_script_name(word, TRUE)

\* the word at index i of the batch has a label, and the map holds its pair
Merged(rec, word) ==
    LET label == classify(word)
    IN (label # None /\ _get_alias(label).err = "none")
       => <<_get_alias(label).val, Replace(label, "_", " ")>> \in MapItems(rec)

Perms(s) ==
    {[i \in 1..Len(s) |-> s[f[i]]] :
        f \in {g \in [1..Len(s) -> 1..Len(s)] :
                 \A i, j \in 1..Len(s) : i # j => g[i] # g[j]}}

ScriptLabels(word) == {script(word[i]) : i \in 1..Len(word)}

\* ------------------------------------------------------------------- claims
\* C1: once reconcile has finished a batch (the empty batch included), every
\* (code, label) pair of the script map has canonical_code(label) = code,
\* whatever the map held on entry.
C1_PostReconcileInvariant == pc = "done" => Consistent(lang)

\* C2: after a batch has been processed, every word of the batch that classify
\* maps to a label L has its pair (canonical_code(L), L with spaces) in the
\* final script map, whatever the map held before the run.
C2_EveryScriptRecorded ==
    pc = "done" => \A i \in 1..Len(batch) : Merged(lang, batch[i])

\* C3: first-write-wins: when the canonical code of a word's label is already a
\* key of the script map, the insertion step leaves the label stored under that
\* code untouched.
C3_FirstWriteWins ==
    (pos >= 1 /\ errAt # "insert" /\ HasMap(prev))
    => LET label == classify(batch[pos])
           code == IF label = None THEN [err |-> KeyError, val |-> <<>>]
                   ELSE _get_alias(label)
       IN (code.err = "none" /\ code.val \in Keys(prev["script"]))
          => /\ code.val \in Keys(swept["script"])
             /\ GetItem(swept["script"], code.val) = GetItem(prev["script"], code.val)

\* C4: self-repair: a pair (code, label) of the initial map with
\* canonical_code(label) # code is removed by a reconcile call with an empty
\* batch.
C4_SelfRepairEmptyBatch ==
    (pc = "done" /\ batch = <<>>)
    => \A p \in MapItems(lang0) : Mismatched(p[1], p[2]) => p \notin MapItems(lang)

\* C5: a word with no decision is skipped: on a record whose script map is
\* absent or consistent it raises no error and leaves the record unchanged
\* (no map created, no entry inserted), and the run goes on.
C5_NoDecisionSkipped ==
    (pos >= 1 /\ classify(batch[pos]) = None /\ (~HasMap(prev) \/ Consistent(prev)))
    => (pc # "error" /\ errAt = "none" /\ lang = prev)

\* C6: idempotence: running reconcile a second time on the record with the same
\* batch yields the same final script map as the first run.
C6_Idempotent == (pc = "done" /\ run = 2) => MapOf(lang) = MapOf(first)

\* C7: in strict mode, for a non-empty word, classify returns the label L when
\* every character has label L and no decision when two or more labels occur;
\* only the set of labels decides, not the counts.
C7_ClassifyByPurity ==
    (cpc = "return" /\ cword # <<>>)
    => cresult = IF Cardinality(ScriptLabels(cword)) = 1
                 THEN CHOOSE l \in ScriptLabels(cword) : TRUE
                 ELSE None

\* C7 witness: a word of three characters, two of one script and one of another,
\* has been classified as no decision.
C7_Witness ==
    /\ cpc = "return"
    /\ Len(cword) = 3
    /\ cword[1] = cword[2]
    /\ script(cword[3]) # script(cword[1])
    /\ cresult = None

\* C8 as stated: after a lookup failure while inserting a word's script, the
\* remaining words of the batch are still merged: the script map ends holding
\* their entries.
C8_FailureSkipsOneWord ==
    (errAt = "insert" /\ pc \in {"error", "done"})
    => \A i \in (pos + 1)..Len(batch) : Merged(lang, batch[i])

\* C8 amended: a lookup failure while inserting a word's script ends the whole
\* run in error at that word: the script map holds the entries it held before
\* the word, and no step follows, so no later word is classified or merged.
C8_FailureAbortsRun ==
    [][/\ errAt # "insert"
       /\ errAt' = "insert" => (pc' = "error" /\ MapItems(lang') = MapItems(lang))]_vars

\* C8 witness: the run stopped at a failed insertion with a word left in the
\* batch whose script the registry knows.
C8_Witness ==
    /\ pc = "error"
    /\ errAt = "insert"
    /\ pos < Len(batch)
    /\ classify(batch[pos + 1]) # None
    /\ _get_alias(classify(batch[pos + 1])).err = "none"
    /\ ~Merged(lang, batch[pos + 1])

\* C9: a sweep in which a registry lookup fails has removed no pair: the record
\* equals the record at the start of that sweep.
C9_SweepNotPartial == errAt = "sweep" => lang = swept

\* C9 witness: a sweep failed after its scan had passed a mismatched pair, and
\* the pair is still in the map.
C9_Witness ==
    /\ errAt = "sweep"
    /\ \E i, j \in 1..Len(lang["script"]) :
          /\ i < j
          /\ Mismatched(lang["script"][i].key, lang["script"][i].value)
          /\ _get_alias(Replace(lang["script"][j].value, " ", "_")).err # "none"

\* C10: order independence: when a batch has been processed without error, any
\* permutation of it is processed without error too and yields the same final
\* script map.
C10_OrderIndependent ==
    (pc = "done" /\ run = 1)
    => \A p \in Perms(batch) :
          /\ Reconcile(lang0, p).at = "none"
          /\ MapOf(Reconcile(lang0, p).lang) = MapOf(lang)

====
